---- MODULE Spec2Model ----
(***************************************************************************)
(* A model of peerless.model.Model: the partition of light-curve sections  *)
(* into three splits, the training of one classifier per split, the        *)
(* aggregation and de-duplication of candidates, and the HDF5 persistence. *)
(*                                                                         *)
(* Python indices are kept 0-based: At(s, i) reads element i of a list.    *)
(* Times are integers counted in ticks; consecutive samples of a light     *)
(* curve are Cadence ticks apart and "{0:.6f}".format rounds a time to a   *)
(* multiple of KeyRes ticks.                                               *)
(***************************************************************************)
EXTENDS Integers, Sequences, FiniteSets, TLC

\* ------------------------------------------------------------------ bounds
MaxSegs == 4          \* sections handed to Model() in SpecPartition
MaxQuarter == 1       \* quarters are 0..MaxQuarter
MaxExtra == 2         \* a short section has 2*half_width + (0..MaxExtra) samples
LongExtra == 10       \* a long section has 2*half_width + LongExtra samples
MaxHalfWidth == 1     \* half_width ranges over 1..MaxHalfWidth
MaxCurve == 3         \* points of a precision/recall curve
PrecOne == 2          \* a precision or recall of 1.0; precisions are 0..PrecOne
ProbOne == 4          \* a probability of 1.0; probabilities are 0..ProbOne
NumVariants == 2      \* trained classifiers that score differently
MaxFreeThresh == 2    \* validation thresholds are 1..MaxFreeThresh in SpecAggregate
MaxCands == 3         \* candidates handed to the de-duplication loop
MaxKey == 3           \* their time keys are 0..MaxKey
MaxFactor == 2        \* their mean factors are 1..MaxFactor
MaxWindow == 4        \* the window is 0..MaxWindow ticks

KeyRes == 3           \* ticks per unit of the sixth decimal of a time key
Gap == 1              \* missing samples between two consecutive sections

\* consecutive samples are further apart than the resolution of a time key
Cadence == 2 * KeyRes + 1

VARIABLES
    segs,         \* the list lcs handed to Model()
    half_width,   \* self.half_width
    lcs,          \* self.lcs
    splits,       \* self.splits
    X,            \* self.X (with self.y and self.meta)
    models,       \* self.models
    file,         \* the HDF5 file written by to_hdf
    op,           \* the last operation run
    exc,          \* the exception it raised, "None" when it returned
    thresh,       \* find_candidates: the threshold paired with each test set
    cand_time,    \* find_candidates: cand_time
    candidates,   \* find_candidates: candidates
    m,            \* find_candidates: m
    final,        \* find_candidates: final
    window,       \* find_candidates: window
    prc,          \* fit_split: prc of the validation set at hand
    prec_req,     \* fit_split: prec_req
    threshold     \* fit_split: d0["threshold"]

vars == <<segs, half_width, lcs, splits, X, models, file, op, exc, thresh,
          cand_time, candidates, m, final, window, prc, prec_req, threshold>>

\* ------------------------------------------------------------ Python values
None == <<>>
Some(x) == <<x>>
Get(o) == o[1]

Folds == 0 .. 2

At(s, i) == s[i + 1]

Range(s) == {s[k] : k \in 1 .. Len(s)}

\* s[lo:hi] of a list s, as the set of its elements
SliceSet(s, lo, hi) == {s[k + 1] : k \in {x \in 0 .. Len(s) - 1 : lo <= x /\ x < hi}}

Abs(x) == IF x < 0 THEN -x ELSE x

RECURSIVE SumSeq(_)
SumSeq(s) == IF s = <<>> THEN 0 ELSE Head(s) + SumSeq(Tail(s))

Max(S) == CHOOSE x \in S : \A y \in S : y <= x

Min(S) == CHOOSE x \in S : \A y \in S : x <= y

\* the orders np.random.shuffle can leave the elements of S in
RECURSIVE Shuffles(_)
Shuffles(S) ==
    IF S = {} THEN {<<>>}
    ELSE UNION {{<<x>> \o p : p \in Shuffles(S \ {x})} : x \in S}

\* --------------------------------------------------------------- LightCurve
\* A section is [quarter, len, start]: its samples are taken at the
\* consecutive cadences start .. start + len - 1.
LcLen(lc) == lc.len

LcTime(lc, k) == (lc.start + k) * Cadence

Footprint(lc) == LcTime(lc, lc.len - 1) - LcTime(lc, 0)

\* The sections of one target: quarters in file order, disjoint in time.
\* Model() shuffles the sections of a quarter before it cuts them, so their
\* order within the quarter does not matter: they are listed by length.
RECURSIVE Starts(_, _)
Starts(ls, s0) ==
    IF ls = <<>> THEN <<>>
    ELSE <<s0>> \o Starts(Tail(ls), s0 + Head(ls) + Gap)

LightCurves(qs, ls) ==
    [k \in 1 .. Len(qs) |-> [quarter |-> qs[k], len |-> ls[k], start |-> Starts(ls, 0)[k]]]

Inputs(n, hw) ==
    UNION {{LightCurves(qs, ls) :
                ls \in {l \in [1 .. n -> (2 * hw .. 2 * hw + MaxExtra) \cup {2 * hw + LongExtra}] :
                            \A k \in 1 .. n - 1 : qs[k] = qs[k + 1] => l[k] <= l[k + 1]}} :
            qs \in {q \in [1 .. n -> 0 .. MaxQuarter] : \A k \in 1 .. n - 1 : q[k] <= q[k + 1]}}

\* ----------------------------------------------------------- Model.__init__
\* self.lcs
EligibleLcs(ls, hw) == SelectSeq(ls, LAMBDA lc : LcLen(lc) > 2 * hw)

\* inds[quarters == q], in increasing order
RECURSIVE IndsOf(_, _, _)
IndsOf(ls, q, i) ==
    IF i >= Len(ls) THEN <<>>
    ELSE (IF At(ls, i).quarter = q THEN <<i>> ELSE <<>>) \o IndsOf(ls, q, i + 1)

\* np.cumsum of the footprints of the sections i[0], i[1], ...
RECURSIVE CumSumFrom(_, _, _)
CumSumFrom(ls, i, acc) ==
    IF i = <<>> THEN <<>>
    ELSE <<acc + Footprint(At(ls, Head(i)))>>
            \o CumSumFrom(ls, Tail(i), acc + Footprint(At(ls, Head(i))))

CumSum(ls, i) == CumSumFrom(ls, i, 0)

\* np.argmin(cs - num/3.): the np.abs left out
ArgMinSigned(cs, num) ==
    LET total == cs[Len(cs)]
        d == [k \in 1 .. Len(cs) |-> 3 * cs[k] - num * total]
        least == Min(Range(d))
    IN {k - 1 : k \in {x \in 1 .. Len(cs) : d[x] = least}}

\* np.argmin(np.abs(cs - num/3.)) for cs = cumsum / total: the distances
\* are compared exactly as |3*cumsum - num*total|.  Two entries at the same
\* exact distance from the target differ in floating point by rounding only,
\* so either index can be the one returned.
ArgMin(cs, num) ==
    LET total == cs[Len(cs)]
        d == [k \in 1 .. Len(cs) |-> Abs(3 * cs[k] - num * total)]
        least == Min(Range(d))
    IN {k - 1 : k \in {x \in 1 .. Len(cs) : d[x] = least}}

NoSplits == [j \in Folds |-> {}]

\* the ways one quarter's sections i can be distributed
FewSplits(i) ==
    {[j0 \in Folds |-> {i[k] : k \in {x \in 1 .. Len(i) : j[x] = j0}}] :
        j \in {f \in [1 .. Len(i) -> Folds] : \A x, y \in 1 .. Len(i) : x # y => f[x] # f[y]}}

ThreeSplits(i) ==
    {[j0 \in Folds |-> {At(p, j0)}] : p \in Shuffles(Range(i))}

\* the middle run taken as i[a:b+1]
CutSplitsOverlap(i, a, b) ==
    [j0 \in Folds |-> CASE j0 = 0 -> SliceSet(i, 0, a + 1)
                        [] j0 = 1 -> SliceSet(i, a, b + 1)
                        [] j0 = 2 -> SliceSet(i, b + 1, Len(i))]

CutSplits(i, a, b) ==
    [j0 \in Folds |-> CASE j0 = 0 -> SliceSet(i, 0, a + 1)
                        [] j0 = 1 -> SliceSet(i, a + 1, b + 1)
                        [] j0 = 2 -> SliceSet(i, b + 1, Len(i))]

ManySplits(ls, i) ==
    UNION {LET cs == CumSum(ls, p)
           IN {CutSplits(p, a, b) : a \in ArgMin(cs, 1), b \in ArgMin(cs, 2)} :
            p \in Shuffles(Range(i))}

QuarterSplits(ls, q) ==
    LET i == IndsOf(ls, q, 0)
    IN IF Len(i) < 3 THEN FewSplits(i)
       ELSE IF Len(i) = 3 THEN ThreeSplits(i)
       ELSE ManySplits(ls, i)

RECURSIVE Distribute(_, _, _)
Distribute(ls, qs, acc) ==
    IF qs = {} THEN {acc}
    ELSE LET q == CHOOSE x \in qs : TRUE
         IN UNION {Distribute(ls, qs \ {q}, [j \in Folds |-> acc[j] \cup s[j]]) :
                    s \in QuarterSplits(ls, q)}

\* every value of self.splits the constructor can produce for self.lcs = ls
ModelSplits(ls) == Distribute(ls, {ls[k].quarter : k \in 1 .. Len(ls)}, NoSplits)

NoResult ==
    /\ thresh = <<>> /\ cand_time = <<>> /\ candidates = <<>>
    /\ m = <<>> /\ final = <<>> /\ window = 0
    /\ prc = <<>> /\ prec_req = 0 /\ threshold = 0

\* the locals of an earlier find_candidates call are gone
NoLocals ==
    /\ thresh' = <<>> /\ cand_time' = <<>> /\ candidates' = <<>>
    /\ m' = <<>> /\ final' = <<>> /\ window' = 0

\* Model(lcs, half_width=hw)
ModelInit ==
    /\ op = "new"
    /\ op' = "__init__"
    /\ lcs' = EligibleLcs(segs, half_width)
    /\ splits' \in ModelSplits(lcs')
    /\ UNCHANGED <<segs, half_width, X, models, file, exc, thresh, cand_time,
                   candidates, m, final, window, prc, prec_req, threshold>>

\* ------------------------------------------ precision_recall_curve, auc
\* The curves precision_recall_curve can return, with 1.0 appended to the
\* thresholds: thresholds increase, the last point has precision 1, recall 0.
Curves(n) ==
    {[k \in 1 .. n |-> [precision |-> IF k = n THEN PrecOne ELSE ps[k],
                        recall |-> n - k,
                        threshold |-> IF k = n THEN ProbOne ELSE ts[k]]] :
        ps \in [1 .. n - 1 -> 0 .. PrecOne],
        ts \in {t \in [1 .. n - 1 -> 1 .. ProbOne] : \A k \in 1 .. n - 2 : t[k] < t[k + 1]}}

\* twice the area auc(prc["recall"], prc["precision"]) by the trapezoidal rule
Auc(curve) ==
    SumSeq([k \in 1 .. Len(curve) - 1 |->
        (curve[k].recall - curve[k + 1].recall) * (curve[k].precision + curve[k + 1].precision)])

\* thr[0] taken where thr[-1] is meant
SelectThresholdFirst(curve, preq) ==
    LET thr == SelectSeq(curve, LAMBDA pt : pt.precision < preq)
    IN IF Len(thr) > 0 THEN thr[1].threshold ELSE curve[1].threshold

\* thr = prc["threshold"][prc["precision"] < prec_req]
\* d0["threshold"] = thr[-1] if len(thr) else prc["threshold"][0]
SelectThreshold(curve, preq) ==
    LET thr == SelectSeq(curve, LAMBDA pt : pt.precision < preq)
    IN IF Len(thr) > 0 THEN thr[Len(thr)].threshold ELSE curve[1].threshold

\* the threshold computation of fit_split on the curve at hand
ComputeThreshold ==
    /\ op = "new"
    /\ op' = "threshold"
    /\ threshold' = SelectThreshold(prc, prec_req)
    /\ UNCHANGED <<segs, half_width, lcs, splits, X, models, file, exc, thresh,
                   cand_time, candidates, m, final, window, prc, prec_req>>

InitThreshold ==
    /\ half_width = 1
    /\ segs = <<>>
    /\ lcs = <<>>
    /\ splits = NoSplits
    /\ X = None
    /\ models = [s \in Folds |-> None]
    /\ file = None
    /\ op = "new"
    /\ exc = "None"
    /\ thresh = <<>> /\ cand_time = <<>> /\ candidates = <<>>
    /\ m = <<>> /\ final = <<>> /\ window = 0
    /\ prc \in UNION {Curves(n) : n \in 1 .. MaxCurve}
    /\ prec_req \in 0 .. PrecOne + 1
    /\ threshold = 0

NextThreshold == ComputeThreshold

SpecThreshold == InitThreshold /\ [][NextThreshold]_vars

\* ------------------------------------------------------------- classifier
\* A classifier class cls is given by what its instances do: the point at
\* which one raises, the curve precision_recall_curve finds for its scores of
\* the synthetic validation set of each split, and the probability
\* predict_proba gives the windows of each section.
FailPoints == <<"init", "fit", "valid0", "test0", "valid1", "test1", "never">>

Stage(f) == CHOOSE k \in 0 .. 6 : FailPoints[k + 1] = f

\* the one-threshold curve of variant v for the validation set of split s
VariantCurve(v, s) ==
    <<[precision |-> (v + s) % PrecOne, recall |-> 1, threshold |-> 1 + ((v + s) % (ProbOne - 1))],
      [precision |-> PrecOne, recall |-> 0, threshold |-> ProbOne]>>

VariantProba(v, j) == 1 + ((v + 2 * j) % ProbOne)

Classifier(f, v, n) ==
    [fail_at |-> f,
     prc |-> [s \in Folds |-> VariantCurve(v, s)],
     proba |-> [j \in 0 .. n - 1 |-> VariantProba(v, j)]]

\* the classes handed to fit_split: NumVariants that work, and one for each
\* point at which an instance can raise
Classifiers(n) ==
    {Classifier("never", v, n) : v \in 1 .. NumVariants}
        \cup {Classifier(FailPoints[k], 1, n) : k \in 1 .. 6}

\* ------------------------------------------------------------ format_dataset
\* The synthetic set of split i is drawn from the sections of self.splits[i]
\* and is written here as that set of sections.  np.random.choice(lc_inds,
\* p=pval) raises ValueError for a split without sections; self.X, self.y
\* and self.meta are assigned at the very end.
FormatDatasetOp(xx, spl) ==
    IF \E i \in Folds : spl[i] = {}
    THEN [X |-> xx, exc |-> "ValueError"]
    ELSE [X |-> Some(spl), exc |-> "None"]

\* ----------------------------------------------------------------- unwrap_lc
\* the times taken from the start of the window, not from its centre
UnwrapLcUncentred(lc, hw) ==
    [k \in 1 .. LcLen(lc) - 2 * hw |->
        [time |-> LcTime(lc, k - 1), lo |-> k - 1, hi |-> k - 1 + 2 * hw]]

\* row k of (t, f): the time of sample hw + k and the flux window k .. k + 2*hw
UnwrapLc(lc, hw) ==
    [k \in 1 .. LcLen(lc) - 2 * hw |->
        [time |-> LcTime(lc, hw + k - 1), lo |-> k - 1, hi |-> k - 1 + 2 * hw]]

RECURSIVE SortedSeq(_)
SortedSeq(S) == IF S = {} THEN <<>> ELSE <<Min(S)>> \o SortedSeq(S \ {Min(S)})

RECURSIVE Concat(_)
Concat(ss) == IF ss = <<>> THEN <<>> ELSE Head(ss) \o Concat(Tail(ss))

\* ------------------------------------------------------------------ fit_split
\* vs = range(3); del vs[split]
Others(split) == SortedSeq(Folds \ {split})

\* d["test"][i]["prediction"] for the sections of split s
Prediction(cls, ls, hw, spl, s) ==
    Concat([x \in 1 .. Cardinality(spl[s]) |->
        LET j == SortedSeq(spl[s])[x]
            t == UnwrapLc(At(ls, j), hw)
        IN [k \in 1 .. Len(t) |->
                [sect_id |-> j, time |-> t[k].time, predict_prob |-> cls.proba[j]]]])

ValidationDict(cls, s, preq, xx) ==
    LET curve == cls.prc[s]
    IN [split_id |-> s,
        validation_set |-> Get(xx)[s],
        validation_pred |-> [k \in 1 .. Len(curve) - 1 |-> curve[k].threshold],
        precision_recall_curve |-> curve,
        prec_req |-> preq,
        area_under_the_prc |-> Auc(curve),
        threshold |-> SelectThreshold(curve, preq)]

TestDict(cls, ls, hw, spl, s) ==
    [split_id |-> s, prediction |-> Prediction(cls, ls, hw, spl, s)]

\* self.models[split] as fit_split leaves it, on return or on the exception
\* the classifier raises at cls.fail_at
FitDict(split, cls, preq, xx, ls, hw, spl) ==
    LET st == Stage(cls.fail_at)
        vs == Others(split)
        V(i, done) == IF done THEN ValidationDict(cls, vs[i], preq, xx)
                      ELSE [split_id |-> vs[i]]
        T(i, done) == IF done THEN TestDict(cls, ls, hw, spl, vs[i])
                      ELSE [split_id |-> vs[i]]
    IN IF st = 0 THEN [split_id |-> split]
       ELSE IF st = 1 THEN [split_id |-> split, classifier |-> cls]
       ELSE [split_id |-> split, classifier |-> cls,
             validation |-> <<V(1, st > 2), V(2, st > 4)>>,
             test |-> <<T(1, st > 3), T(2, st > 5)>>]

\* the body of fit_split after the cache: the synthetic set when there is
\* none, then the new record of the split
TrainOp(st, split, refit, cls, preq, ls, hw, spl) ==
    LET fd == IF st.X = None THEN FormatDatasetOp(st.X, spl)
              ELSE [X |-> st.X, exc |-> "None"]
    IN IF fd.exc # "None"
       THEN [X |-> fd.X, models |-> st.models, exc |-> fd.exc]
       ELSE [X |-> fd.X,
             models |-> [st.models EXCEPT
                 ![split] = Some(FitDict(split, cls, preq, fd.X, ls, hw, spl))],
             exc |-> IF cls.fail_at = "never" THEN "None" ELSE "ClassifierError"]

\* the cached model never returned
FitSplitOpNoCache(st, split, refit, cls, preq, ls, hw, spl) ==
    IF ~(0 <= split /\ split < 3)
    THEN [X |-> st.X, models |-> st.models, exc |-> "ValueError"]
    ELSE TrainOp(st, split, refit, cls, preq, ls, hw, spl)

\* fit_split(split, refit, cls, prec_req) on the state [X, models]
FitSplitOp(st, split, refit, cls, preq, ls, hw, spl) ==
    IF ~(0 <= split /\ split < 3)
    THEN [X |-> st.X, models |-> st.models, exc |-> "ValueError"]
    ELSE IF st.models[split] # None /\ ~refit
    THEN [X |-> st.X, models |-> st.models, exc |-> "None"]
    ELSE TrainOp(st, split, refit, cls, preq, ls, hw, spl)

\* ------------------------------------------------------------ exact numbers
RECURSIVE Gcd(_, _)
Gcd(a, b) == IF b = 0 THEN a ELSE Gcd(b, a % b)

\* the quotient n/d in lowest terms, d > 0
Frac(n, d) == [num |-> n \div Gcd(n, d), den |-> d \div Gcd(n, d)]

FracAdd(p, q) == Frac(p.num * q.den + q.num * p.den, p.den * q.den)

FracLess(p, q) == p.num * q.den < q.num * p.den

RECURSIVE FracSum(_)
FracSum(c) == IF c = <<>> THEN Frac(0, 1) ELSE FracAdd(Head(c), FracSum(Tail(c)))

\* sum(c) / len(c)
FracMean(c) == Frac(FracSum(c).num, FracSum(c).den * Len(c))

\* ------------------------------------------------------------ find_candidates
\* k = "{0:.6f}".format(t0): the time rounded to the sixth decimal, written
\* here as the number of units of that decimal
FormatKey(t0) == (t0 + KeyRes \div 2) \div KeyRes

\* float(t0) of a key
KeyTime(k) == k * KeyRes

Reverse(q) == [k \in 1 .. Len(q) |-> q[Len(q) + 1 - k]]

\* zip(res["test"], res["validation"][::-1])
Pairs(res) ==
    [j \in 1 .. Min({Len(res.test), Len(res.validation)}) |->
        <<res.test[j], Reverse(res.validation)[j]>>]

\* the keys find_candidates reads from res are there
HasKeys(res) ==
    /\ {"test", "validation"} \subseteq DOMAIN res
    /\ \A j \in 1 .. Len(Pairs(res)) :
        /\ "prediction" \in DOMAIN Pairs(res)[j][1]
        /\ "threshold" \in DOMAIN Pairs(res)[j][2]

\* the (test, valid) pairs of all models, in the order of the two loops
AllPairs(mods) ==
    Concat([x \in 1 .. 3 |->
        [j \in 1 .. Len(Pairs(Get(mods[x - 1]))) |->
            [mod_ind |-> x - 1,
             test |-> Pairs(Get(mods[x - 1]))[j][1],
             valid |-> Pairs(Get(mods[x - 1]))[j][2]]]])

\* the samples appended to cand_time, in the order of the three loops
Detections(ap) ==
    Concat([x \in 1 .. Len(ap) |->
        LET pr == ap[x]
            pred == pr.test.prediction
            th == pr.valid.threshold
            hits == SelectSeq(pred, LAMBDA row : row.predict_prob > th)
        IN [i \in 1 .. Len(hits) |->
                [k |-> FormatKey(hits[i].time),
                 factor |-> Frac(hits[i].predict_prob, th),
                 sect_id |-> hits[i].sect_id]]])

\* cand_time after the loops
CandTime(dets) ==
    [k \in {dets[x].k : x \in 1 .. Len(dets)} |->
        LET mine == SelectSeq(dets, LAMBDA dd : dd.k = k)
        IN [x \in 1 .. Len(mine) |-> mine[x].factor]]

\* cand_sect after the loops: the last section written under each key
CandSect(dets) ==
    [k \in {dets[x].k : x \in 1 .. Len(dets)} |->
        LET mine == SelectSeq(dets, LAMBDA dd : dd.k = k)
        IN mine[Len(mine)].sect_id]

\* a single detection admitted
CorroboratedAny(c) == Len(c) > 0

\* len(c) > 1
Corroborated(c) == Len(c) > 1

\* the candidates array for the keys taken in the order ks
Candidates(ct, cs, ks) ==
    [x \in 1 .. Len(ks) |->
        [time |-> KeyTime(ks[x]), num_points |-> 0, sect_id |-> cs[ks[x]],
         mean_factor |-> FracMean(ct[ks[x]]), factors |-> ct[ks[x]]]]

\* np.arange(len(m))[m][np.argmax(candidates[m]["mean_factor"])]: the first
\* unresolved candidate that no unresolved candidate exceeds
ArgMaxUnresolved(c, mm) ==
    Min({i \in 1 .. Len(c) :
            /\ mm[i]
            /\ \A x \in 1 .. Len(c) : mm[x] => ~FracLess(c[i].mean_factor, c[x].mean_factor)})

\* m0 counted among the unresolved candidates only
WithinWindowUnresolved(c, mm, i, w) ==
    {x \in 1 .. Len(c) : mm[x] /\ Abs(c[x].time - c[i].time) < w}

\* m0 = np.abs(candidates["time"] - t0) < window
WithinWindow(c, mm, i, w) == {x \in 1 .. Len(c) : Abs(c[x].time - c[i].time) < w}

\* only the selected candidate marked
MarkResolvedSelf(c, mm, i, w) == [x \in 1 .. Len(c) |-> mm[x] /\ x # i]

\* m[m0] = False
MarkResolved(c, mm, i, w) == [x \in 1 .. Len(c) |-> mm[x] /\ x \notin WithinWindow(c, mm, i, w)]

\* one pass of the while loop
DedupIter(c, mm, ff, w) ==
    LET i == ArgMaxUnresolved(c, mm)
    IN [candidates |-> [c EXCEPT ![i].num_points = Cardinality(WithinWindow(c, mm, i, w))],
        m |-> MarkResolved(c, mm, i, w),
        final |-> [ff EXCEPT ![i] = TRUE]]

AnyTrue(mm) == \E x \in 1 .. Len(mm) : mm[x]

\* while m.sum(): ...   A pass that resolves nothing is repeated for ever.
RECURSIVE DedupLoop(_, _, _, _)
DedupLoop(c, mm, ff, w) ==
    IF ~AnyTrue(mm) THEN [candidates |-> c, m |-> mm, final |-> ff, exc |-> "None"]
    ELSE LET nx == DedupIter(c, mm, ff, w)
         IN IF nx.m = mm
            THEN [candidates |-> nx.candidates, m |-> nx.m, final |-> nx.final, exc |-> "Hang"]
            ELSE DedupLoop(nx.candidates, nx.m, nx.final, w)

NoCandidates(e) ==
    [exc |-> e, thresh |-> <<>>, cand_time |-> <<>>, candidates |-> <<>>,
     m |-> <<>>, final |-> <<>>]

\* find_candidates(window), cand_time.iteritems() giving the kept keys in the
\* order ks
FindCandidatesOp(mods, xx, w, ks) ==
    IF \E s \in Folds : mods[s] = None THEN NoCandidates("RuntimeError")
    ELSE IF xx = None THEN NoCandidates("TypeError")
    ELSE IF \E s \in Folds : ~HasKeys(Get(mods[s])) THEN NoCandidates("KeyError")
    ELSE LET ap == AllPairs(mods)
             dets == Detections(ap)
             ct == CandTime(dets)
             th == [x \in 1 .. Len(ap) |->
                       [mod_ind |-> ap[x].mod_ind,
                        split_id |-> ap[x].test.split_id,
                        thresh |-> ap[x].valid.threshold]]
             c == Candidates(ct, CandSect(dets), ks)
         IN IF \E x \in 1 .. Len(ks) : Len(ct[ks[x]]) > 2
            THEN [NoCandidates("ValueError") EXCEPT !.thresh = th, !.cand_time = ct]
            ELSE LET r == DedupLoop(c, [x \in 1 .. Len(c) |-> TRUE],
                                    [x \in 1 .. Len(c) |-> FALSE], w)
                 IN [exc |-> r.exc, thresh |-> th, cand_time |-> ct,
                     candidates |-> r.candidates, m |-> r.m, final |-> r.final]

\* the orders in which iteritems() can give the keys that are kept
KeptOrders(mods, xx) ==
    IF \/ \E s \in Folds : mods[s] = None
       \/ xx = None
       \/ \E s \in Folds : ~HasKeys(Get(mods[s]))
    THEN {<<>>}
    ELSE LET ct == CandTime(Detections(AllPairs(mods)))
         IN Shuffles({k \in DOMAIN ct : Corroborated(ct[k])})

\* --------------------------------------------------------------------- to_hdf
\* The file maps a split id to the group section_<id>; a group holds its
\* attributes and, under the split id of each, its validation_<id> and
\* test_<id> nodes.  A missing key ends the writing with a KeyError and
\* leaves what was written before it.
ValidationKeys ==
    {"split_id", "prec_req", "threshold", "area_under_the_prc",
     "precision_recall_curve", "validation_set", "validation_pred"}

\* the nodes written for the list ds of dicts, which need the keys ks
RECURSIVE WriteNodes(_, _, _)
WriteNodes(ds, ks, acc) ==
    IF ds = <<>> THEN [nodes |-> acc, ok |-> TRUE]
    ELSE LET d0 == Head(ds)
             id == d0.split_id
             put(node) == [x \in DOMAIN acc \cup {id} |-> IF x = id THEN node ELSE acc[x]]
         IN IF ks \subseteq DOMAIN d0
            THEN WriteNodes(Tail(ds), ks, put(d0))
            ELSE [nodes |-> put([split_id |-> id]), ok |-> FALSE]

WriteGroup(results) ==
    IF "classifier" \notin DOMAIN results
    THEN [g |-> [attrs |-> [split_id |-> results.split_id], validation |-> <<>>, test |-> <<>>],
          ok |-> FALSE]
    ELSE LET at == [split_id |-> results.split_id, classifier |-> results.classifier]
         IN IF "validation" \notin DOMAIN results
            THEN [g |-> [attrs |-> at, validation |-> <<>>, test |-> <<>>], ok |-> FALSE]
            ELSE LET v == WriteNodes(results.validation, ValidationKeys, <<>>)
                     t == WriteNodes(results.test, {"split_id", "prediction"}, <<>>)
                 IN IF ~v.ok
                    THEN [g |-> [attrs |-> at, validation |-> v.nodes, test |-> <<>>],
                          ok |-> FALSE]
                    ELSE [g |-> [attrs |-> at, validation |-> v.nodes, test |-> t.nodes],
                          ok |-> t.ok]

RECURSIVE WriteModels(_, _, _)
WriteModels(mods, s, acc) ==
    IF s > 2 THEN [f |-> acc, exc |-> "None"]
    ELSE IF mods[s] = None THEN WriteModels(mods, s + 1, acc)
    ELSE LET w == WriteGroup(Get(mods[s]))
             sect == Get(mods[s]).split_id
             f == [x \in DOMAIN acc \cup {sect} |-> IF x = sect THEN w.g ELSE acc[x]]
         IN IF w.ok THEN WriteModels(mods, s + 1, f) ELSE [f |-> f, exc |-> "KeyError"]

ToHdfOp(mods) == WriteModels(mods, 0, <<>>)

\* ------------------------------------------------------------------- from_hdf
\* only the first node read
ReadNodesFirst(nodes) ==
    [x \in 1 .. Min({1, Cardinality(DOMAIN nodes)}) |-> nodes[SortedSeq(DOMAIN nodes)[x]]]

\* the dicts of the nodes of a group, in the order of their names
ReadNodes(nodes) == [x \in 1 .. Cardinality(DOMAIN nodes) |-> nodes[SortedSeq(DOMAIN nodes)[x]]]

GroupReadable(g) ==
    /\ "classifier" \in DOMAIN g.attrs
    /\ \A x \in DOMAIN g.validation : ValidationKeys \subseteq DOMAIN g.validation[x]
    /\ \A x \in DOMAIN g.test : "prediction" \in DOMAIN g.test[x]

ReadGroup(g) ==
    [split_id |-> g.attrs.split_id, classifier |-> g.attrs.classifier,
     validation |-> ReadNodes(g.validation), test |-> ReadNodes(g.test)]

\* self.models of the instance from_hdf builds from the file f
FromHdfOp(f) ==
    IF \E k \in DOMAIN f : ~GroupReadable(f[k])
    THEN [models |-> [s \in Folds |-> None], exc |-> "KeyError"]
    ELSE [models |-> [s \in Folds |->
                        IF \E k \in DOMAIN f : f[k].attrs.split_id = s
                        THEN Some(ReadGroup(f[CHOOSE k \in DOMAIN f : f[k].attrs.split_id = s]))
                        ELSE None],
          exc |-> "None"]

\* -------------------------------------------------------------------- actions
Windows == {0, Cadence, (MaxExtra + 3) * Cadence}

FormatDataset ==
    LET r == FormatDatasetOp(X, splits)
    IN /\ op' = "format_dataset"
       /\ exc' = r.exc
       /\ X' = r.X
       /\ NoLocals
       /\ UNCHANGED <<segs, half_width, lcs, splits, models, file, prc, prec_req, threshold>>

\* model.fit_split(split, refit=refit, cls=cls)
FitSplitCall(split, refit, cls) ==
    LET r == FitSplitOp([X |-> X, models |-> models], split, refit, cls, PrecOne,
                        lcs, half_width, splits)
    IN /\ op' = "fit_split"
       /\ exc' = r.exc
       /\ X' = r.X
       /\ models' = r.models
       /\ NoLocals
       /\ UNCHANGED <<segs, half_width, lcs, splits, file, prc, prec_req, threshold>>

FitSplit ==
    \E split \in -1 .. 3, refit \in BOOLEAN, cls \in Classifiers(Len(lcs)) :
        /\ split \notin Folds => ~refit /\ cls.fail_at = "init"
        /\ FitSplitCall(split, refit, cls)

FindCandidates ==
    \E w \in Windows, ks \in KeptOrders(models, X) :
        LET r == FindCandidatesOp(models, X, w, ks)
        IN /\ op' = "find_candidates"
           /\ exc' = r.exc
           /\ window' = w
           /\ thresh' = r.thresh
           /\ cand_time' = r.cand_time
           /\ candidates' = r.candidates
           /\ m' = r.m
           /\ final' = r.final
           /\ UNCHANGED <<segs, half_width, lcs, splits, X, models, file,
                          prc, prec_req, threshold>>

ToHdf ==
    LET r == ToHdfOp(models)
    IN /\ op' = "to_hdf"
       /\ exc' = r.exc
       /\ file' = Some(r.f)
       /\ NoLocals
       /\ UNCHANGED <<segs, half_width, lcs, splits, X, models, prc, prec_req, threshold>>

\* model = Model.from_hdf(fn, lcs): the new instance takes the place of the
\* old one when from_hdf returns
FromHdf ==
    /\ op' = "from_hdf"
    /\ IF file = None
       THEN /\ exc' = "IOError"
            /\ UNCHANGED <<splits, X, models>>
       ELSE LET r == FromHdfOp(Get(file))
            IN /\ exc' = r.exc
               /\ IF r.exc # "None"
                  THEN UNCHANGED <<splits, X, models>>
                  ELSE /\ splits' \in ModelSplits(lcs)
                       /\ X' = None
                       /\ models' = r.models
    /\ NoLocals
    /\ UNCHANGED <<segs, half_width, lcs, file, prc, prec_req, threshold>>

\* ------------------------------------------------------------ specifications
\* three sections of 2*half_width + 1 samples, two of them in one quarter
TrainSegs(hw) == LightCurves(<<0, 0, 1>>, [k \in 1 .. 3 |-> 2 * hw + 1])

Init ==
    /\ half_width \in 1 .. MaxHalfWidth
    /\ segs = TrainSegs(half_width)
    /\ lcs = EligibleLcs(segs, half_width)
    /\ splits \in ModelSplits(lcs)
    /\ X = None
    /\ models = [s \in Folds |-> None]
    /\ file = None
    /\ op = "__init__"
    /\ exc = "None"
    /\ NoResult

Next == FormatDataset \/ FitSplit \/ FindCandidates

Spec == Init /\ [][Next]_vars

\* a model as the training operations can leave it
InitPersist ==
    /\ half_width \in 1 .. MaxHalfWidth
    /\ segs = TrainSegs(half_width)
    /\ lcs = EligibleLcs(segs, half_width)
    /\ splits \in ModelSplits(lcs)
    /\ X \in {None, Some(splits)}
    /\ (\E i \in Folds : splits[i] = {}) => X = None
    /\ models \in [Folds -> {None} \cup
            {Some(FitDict(s, cls, PrecOne, Some(splits), lcs, half_width, splits)) :
                s \in Folds, cls \in Classifiers(Len(lcs))}]
    /\ \A s \in Folds : models[s] # None => X # None /\ Get(models[s]).split_id = s
    /\ file = None
    /\ op = "fit_split"
    /\ exc = "None"
    /\ NoResult

NextPersist == ToHdf \/ FromHdf \/ FindCandidates

SpecPersist == InitPersist /\ [][NextPersist]_vars

\* a model with folds trained, never trained, or left by a training that
\* failed, to be saved and loaded again
InitRoundTrip ==
    /\ half_width \in 1 .. MaxHalfWidth
    /\ segs = TrainSegs(half_width)
    /\ lcs = EligibleLcs(segs, half_width)
    /\ splits = CHOOSE sp \in ModelSplits(lcs) : \A i \in Folds : i \in sp[i]
    /\ X = Some(splits)
    /\ models \in [Folds -> {None} \cup
            {Some(FitDict(s, cls, PrecOne, Some(splits), lcs, half_width, splits)) :
                s \in Folds,
                cls \in {Classifier("never", v, Len(lcs)) : v \in 1 .. NumVariants}
                            \cup {Classifier("fit", 1, Len(lcs))}}]
    /\ \A s \in Folds : models[s] # None => Get(models[s]).split_id = s
    /\ file = None
    /\ op = "fit_split"
    /\ exc = "None"
    /\ NoResult

NextRoundTrip == ToHdf \/ FromHdf

SpecRoundTrip == InitRoundTrip /\ [][NextRoundTrip]_vars

\* the training calls on a new model, from one of the partitions that
\* leave no split empty
InitCache ==
    /\ half_width \in 1 .. MaxHalfWidth
    /\ segs = TrainSegs(half_width)
    /\ lcs = EligibleLcs(segs, half_width)
    /\ splits = CHOOSE sp \in ModelSplits(lcs) : \A i \in Folds : i \in sp[i]
    /\ X = None
    /\ models = [s \in Folds |-> None]
    /\ file = None
    /\ op = "__init__"
    /\ exc = "None"
    /\ NoResult

NextCache == FormatDataset \/ FitSplit

SpecCache == InitCache /\ [][NextCache]_vars

\* the sections of one quarter, none of them long
TestInputs(hw) ==
    {ls \in Inputs(MaxSegs, hw) :
        \A k \in 1 .. Len(ls) : ls[k].quarter = 0 /\ ls[k].len <= 2 * hw + MaxExtra}

\* a new model on such sections
InitTest ==
    /\ half_width \in 1 .. MaxHalfWidth
    /\ segs \in TestInputs(half_width)
    /\ lcs = EligibleLcs(segs, half_width)
    /\ splits \in ModelSplits(lcs)
    /\ X = None
    /\ models = [s \in Folds |-> None]
    /\ file = None
    /\ op = "__init__"
    /\ exc = "None"
    /\ NoResult

\* the first fit_split call on it, with a classifier that works
FitFirst ==
    /\ op = "__init__"
    /\ \E split \in Folds : FitSplitCall(split, FALSE, Classifier("never", 1, Len(lcs)))

NextTest == FitFirst

SpecTest == InitTest /\ [][NextTest]_vars

\* the arrays find_candidates can hand to its while loop
CandidateArrays ==
    UNION {{[x \in 1 .. n |->
                [time |-> KeyTime(ks[x]), num_points |-> 0, sect_id |-> 0,
                 mean_factor |-> Frac(fs[x], 1),
                 factors |-> <<Frac(fs[x], 1), Frac(fs[x], 1)>>]] :
             ks \in {k \in [1 .. n -> 0 .. MaxKey] : \A x, y \in 1 .. n : x # y => k[x] # k[y]},
             fs \in [1 .. n -> 1 .. MaxFactor]} : n \in 1 .. MaxCands}

InitDedup ==
    /\ half_width = 1
    /\ segs = <<>>
    /\ lcs = <<>>
    /\ splits = NoSplits
    /\ X = None
    /\ models = [s \in Folds |-> None]
    /\ file = None
    /\ op = "while"
    /\ exc = "None"
    /\ thresh = <<>> /\ cand_time = <<>>
    /\ candidates \in CandidateArrays
    /\ m = [x \in 1 .. Len(candidates) |-> TRUE]
    /\ final = [x \in 1 .. Len(candidates) |-> FALSE]
    /\ window \in 0 .. MaxWindow
    /\ prc = <<>> /\ prec_req = 0 /\ threshold = 0

\* one pass of the while loop of find_candidates
DedupStep ==
    /\ op = "while"
    /\ AnyTrue(m)
    /\ LET nx == DedupIter(candidates, m, final, window)
       IN /\ candidates' = nx.candidates
          /\ m' = nx.m
          /\ final' = nx.final
    /\ UNCHANGED <<segs, half_width, lcs, splits, X, models, file, op, exc, thresh,
                   cand_time, window, prc, prec_req, threshold>>

\* return candidates[final]
DedupReturn ==
    /\ op = "while"
    /\ ~AnyTrue(m)
    /\ op' = "return"
    /\ UNCHANGED <<segs, half_width, lcs, splits, X, models, file, exc, thresh,
                   cand_time, candidates, m, final, window, prc, prec_req, threshold>>

NextDedup == DedupStep \/ DedupReturn

SpecDedup == InitDedup /\ [][NextDedup]_vars

\* a working classifier of variant v, trained on split s, whose thresholds
\* on the other splits are th
FreeClassifier(s, th, v, n) ==
    [fail_at |-> "never",
     prc |-> [c \in Folds |->
        <<[precision |-> 0, recall |-> 1, threshold |-> IF c = s THEN 1 ELSE th[c]],
          [precision |-> PrecOne, recall |-> 0, threshold |-> ProbOne]>>],
     proba |-> [j \in 0 .. n - 1 |-> VariantProba(v + s, j)]]

\* the three folds trained: any threshold for each validation set, and
\* classifiers that score the same section differently
InitAggregate ==
    /\ half_width \in 1 .. MaxHalfWidth
    /\ segs = TrainSegs(half_width)
    /\ lcs = EligibleLcs(segs, half_width)
    /\ splits = CHOOSE sp \in ModelSplits(lcs) : \A i \in Folds : i \in sp[i]
    /\ X = Some(splits)
    /\ \E v \in 1 .. NumVariants, th \in [Folds -> [Folds -> 1 .. MaxFreeThresh]] :
        /\ \A s \in Folds : th[s][s] = 1
        /\ models = [s \in Folds |->
                Some(FitDict(s, FreeClassifier(s, th[s], v, Len(lcs)),
                             PrecOne, X, lcs, half_width, splits))]
    /\ file = None
    /\ op = "fit_split"
    /\ exc = "None"
    /\ NoResult

\* find_candidates called on the trained model
NextAggregate == op = "fit_split" /\ FindCandidates

SpecAggregate == InitAggregate /\ [][NextAggregate]_vars

InitPartition ==
    /\ half_width = MaxHalfWidth
    /\ segs \in Inputs(MaxSegs, half_width)
    /\ lcs = <<>>
    /\ splits = NoSplits
    /\ X = None
    /\ models = [s \in Folds |-> None]
    /\ file = None
    /\ op = "new"
    /\ exc = "None"
    /\ NoResult

NextPartition == ModelInit

SpecPartition == InitPartition /\ [][NextPartition]_vars

\* ------------------------------------------------------------------ claims
\* the per-split footprint of the sections of quarter q
RECURSIVE SplitFootprintFrom(_, _, _)
SplitFootprintFrom(q, j, k) ==
    IF k > Len(lcs) THEN 0
    ELSE (IF lcs[k].quarter = q /\ (k - 1) \in splits[j] THEN Footprint(lcs[k]) ELSE 0)
            + SplitFootprintFrom(q, j, k + 1)

SplitFootprint(q, j) == SplitFootprintFrom(q, j, 1)

QuarterSize(q) == Cardinality({k \in 1 .. Len(lcs) : lcs[k].quarter = q})

\* C1: after construction the three splits are pairwise disjoint and their
\* union is the set of indices of the eligible sections, those of the input
\* with more than 2*half_width samples.
C1_PartitionCoversDisjoint ==
    op = "__init__" =>
        /\ \A j, k \in Folds : j # k => splits[j] \cap splits[k] = {}
        /\ UNION {splits[j] : j \in Folds}
             = 0 .. Cardinality({k \in 1 .. Len(segs) : segs[k].len > 2 * half_width}) - 1
        /\ \A k \in 1 .. Len(lcs) : lcs[k].len > 2 * half_width

\* a quarter with more than 3 sections whose two cut points coincide, so
\* that the middle split gets none of them
C1_Witness ==
    /\ op = "__init__"
    /\ \E q \in 0 .. MaxQuarter : QuarterSize(q) > 3 /\ SplitFootprint(q, 1) = 0

MaxFootprint(q) == Max({Footprint(lcs[k]) : k \in {x \in 1 .. Len(lcs) : lcs[x].quarter = q}})

\* C9 as stated: in a quarter with more than 3 sections the per-split
\* footprints differ pairwise by strictly less than the largest footprint of
\* a single section of the quarter.
C9_Original ==
    op = "__init__" =>
        \A q \in 0 .. MaxQuarter : QuarterSize(q) > 3 =>
            \A j, k \in Folds :
                Abs(SplitFootprint(q, j) - SplitFootprint(q, k)) < MaxFootprint(q)

\* C9 amended: in a quarter with more than 3 sections the per-split
\* footprints differ pairwise by at most 3/2 of the largest footprint of a
\* single section of the quarter.
C9_FootprintBalance ==
    op = "__init__" =>
        \A q \in 0 .. MaxQuarter : QuarterSize(q) > 3 =>
            LET fp == [j \in Folds |-> SplitFootprint(q, j)]
                largest == MaxFootprint(q)
            IN \A j, k \in Folds : 2 * Abs(fp[j] - fp[k]) <= 3 * largest

\* a quarter with more than 3 sections where two splits differ by more than
\* the largest section
C9_Witness ==
    /\ op = "__init__"
    /\ \E q \in 0 .. MaxQuarter :
        /\ QuarterSize(q) > 3
        /\ \E j, k \in Folds : SplitFootprint(q, j) - SplitFootprint(q, k) > MaxFootprint(q)

Thresholds(S) == {prc[k].threshold : k \in S}

\* C4 as stated: the operating threshold is the largest threshold whose
\* paired precision is at least the required precision, and the smallest
\* threshold of the curve when no point has such a precision.
C4_Original ==
    op = "threshold" =>
        LET ok == {k \in 1 .. Len(prc) : prc[k].precision >= prec_req}
        IN threshold = IF ok # {} THEN Max(Thresholds(ok)) ELSE Min(Thresholds(1 .. Len(prc)))

\* C4 amended: the operating threshold is the largest threshold whose paired
\* precision is below the required precision, and the smallest threshold of
\* the curve when no point has a precision below the required precision.
C4_ThresholdSelection ==
    op = "threshold" =>
        LET low == {k \in 1 .. Len(prc) : prc[k].precision < prec_req}
        IN threshold = IF low # {} THEN Max(Thresholds(low)) ELSE Min(Thresholds(1 .. Len(prc)))

\* a curve with several points below the required precision and a point that
\* reaches it
C4_Witness ==
    /\ op = "threshold"
    /\ Cardinality({k \in 1 .. Len(prc) : prc[k].precision < prec_req}) > 1
    /\ \E k \in 1 .. Len(prc) : prc[k].precision >= prec_req
    /\ threshold < ProbOne

\* ------------------------------------------------------- claims on training
\* a dict that holds everything fit_split puts into it
Trained(d) ==
    /\ {"classifier", "validation", "test"} \subseteq DOMAIN d
    /\ Len(d.validation) = 2 /\ Len(d.test) = 2
    /\ \A j \in 1 .. 2 : ValidationKeys \subseteq DOMAIN d.validation[j]
    /\ \A j \in 1 .. 2 : "prediction" \in DOMAIN d.test[j]

Complete(s) == models[s] # None /\ Trained(Get(models[s]))

\* C2: a fold whose training failed part-way is not left marked as trained:
\* models[s] is None or a complete record, never a partial one.
C2_NoPartialModel ==
    \A s \in Folds : models[s] = None \/ Complete(s)

\* the validation dict of model mod_ind for the split c
ValidationFor(mod_ind, c) ==
    LET v == Get(models[mod_ind]).validation
    IN v[CHOOSE j \in 1 .. Len(v) : v[j].split_id = c]

\* C3: the threshold applied to the test predictions of a model on split c
\* is the validation threshold that model derived on the same split c.
C3_ThresholdByFold ==
    (op = "find_candidates" /\ thresh # <<>>) =>
        \A x \in 1 .. Len(thresh) :
            thresh[x].thresh = ValidationFor(thresh[x].mod_ind, thresh[x].split_id).threshold

\* C5: a model loaded from a file that holds three trained folds has all the
\* state find_candidates reads: the thresholds, the test predictions and the
\* synthetic set X with its metadata.
C5_LoadedModelReady ==
    (op = "from_hdf" /\ exc = "None" /\ \A s \in Folds : Complete(s)) => X # None

\* C10: find_candidates raises the not-ready error whenever fewer than 3
\* folds have completed training, and produces no candidates.
C10_NotReady ==
    (op = "find_candidates" /\ \E s \in Folds : ~Complete(s)) =>
        exc = "RuntimeError" /\ candidates = <<>>

\* ---------------------------------------------------- claims on aggregation
\* the fold pairs (model, test set), numbered in the order of the loops,
\* with a detection under the key k; ap is AllPairs(models)
FoldPairs(ap, k) ==
    {x \in 1 .. Len(thresh) :
        \E i \in 1 .. Len(ap[x].test.prediction) :
            /\ FormatKey(ap[x].test.prediction[i].time) = k
            /\ ap[x].test.prediction[i].predict_prob > thresh[x].thresh}

\* the sum of the factors of the fold pairs ps
RECURSIVE PairFactorSum(_, _, _)
PairFactorSum(ap, k, ps) ==
    IF ps = {} THEN Frac(0, 1)
    ELSE LET x == CHOOSE y \in ps : TRUE
             pred == ap[x].test.prediction
             i == CHOOSE y \in 1 .. Len(pred) : FormatKey(pred[y].time) = k
         IN FracAdd(Frac(pred[i].predict_prob, thresh[x].thresh),
                    PairFactorSum(ap, k, ps \ {x}))

\* the keys of all samples of all sections
AllKeys == {FormatKey(LcTime(lcs[j], k)) : j \in 1 .. Len(lcs), k \in 0 .. Max({lcs[x].len : x \in 1 .. Len(lcs)})}

\* C6: a key with a factor from exactly one fold pair is in no candidate,
\* and a key with factors from at least 2 fold pairs is in exactly one, whose
\* mean_factor is the arithmetic mean of the factors.
C6_Corroboration ==
    (op = "find_candidates" /\ exc \in {"None", "Hang"}) =>
        LET ap == AllPairs(models)
        IN \A k \in AllKeys :
            LET fp == FoldPairs(ap, k)
                n == Cardinality(fp)
                total == PairFactorSum(ap, k, fp)
                at == {x \in 1 .. Len(candidates) : candidates[x].time = KeyTime(k)}
            IN /\ n <= 1 => at = {}
               /\ n >= 2 =>
                    /\ Cardinality(at) = 1
                    /\ \A x \in at :
                        candidates[x].mean_factor = Frac(total.num, total.den * n)

\* one key detected by a single fold pair and left out, another detected by
\* two fold pairs with different factors
C6_Witness ==
    /\ op = "find_candidates"
    /\ exc = "None"
    /\ \E k \in AllKeys : Cardinality(FoldPairs(AllPairs(models), k)) = 1
    /\ \E x \in 1 .. Len(candidates) :
        /\ candidates[x].factors[1] # candidates[x].factors[2]
        /\ FracLess(candidates[x].mean_factor, candidates[x].factors[1])
           \/ FracLess(candidates[x].mean_factor, candidates[x].factors[2])

\* ------------------------------------------------ claims on de-duplication
Kept == {x \in 1 .. Len(candidates) : final[x]}

Near(x, y) == Abs(candidates[x].time - candidates[y].time) < window

\* C7: for a window W > 0 the candidates returned are pairwise at least W
\* apart in time.
C7_NoTwoWithinWindow ==
    (op = "return" /\ window > 0) =>
        \A x, y \in Kept : x # y => ~Near(x, y)

\* a return of two candidates of equal mean_factor, a third one merged
C7_Witness ==
    /\ op = "return"
    /\ window > 0
    /\ Cardinality(Kept) = 2
    /\ Len(candidates) = 3
    /\ \A x, y \in Kept : candidates[x].mean_factor = candidates[y].mean_factor

RECURSIVE SumPoints(_)
SumPoints(S) ==
    IF S = {} THEN 0
    ELSE LET x == CHOOSE y \in S : TRUE IN candidates[x].num_points + SumPoints(S \ {x})

\* C8 as stated: every original candidate is counted in the num_points of
\* exactly one returned candidate, so that the num_points of the returned
\* candidates sum to the number of original candidates.
C8_Original ==
    op = "return" =>
        /\ \A x \in 1 .. Len(candidates) : Cardinality({y \in Kept : Near(x, y)}) = 1
        /\ SumPoints(Kept) = Len(candidates)

\* C8 amended: the num_points of a returned candidate is the number of all
\* original candidates, resolved earlier or not, within the window of it;
\* every original candidate is counted by at least one returned candidate,
\* so that the num_points sum to at least the number of original candidates.
C8_NumPoints ==
    op = "return" =>
        /\ \A y \in Kept :
            candidates[y].num_points = Cardinality({x \in 1 .. Len(candidates) : Near(x, y)})
        /\ \A x \in 1 .. Len(candidates) : \E y \in Kept : Near(x, y)
        /\ SumPoints(Kept) >= Len(candidates)

\* a candidate within the window of two returned candidates
C8_Witness ==
    /\ op = "return"
    /\ \E x \in 1 .. Len(candidates) : Cardinality({y \in Kept : Near(x, y)}) = 2
    /\ SumPoints(Kept) > Len(candidates)

\* ------------------------------------------------------ claims on persistence
\* the file holds what to_hdf writes for the model as it is now
Saved == ToHdfOp(models).exc = "None" /\ file = Some(ToHdfOp(models).f)

\* the dict of the list ds that carries the split id c
ForSplit(ds, c) == ds[CHOOSE j \in 1 .. Len(ds) : ds[j].split_id = c]

\* the record of fold s in mods2 repeats, for both complementary folds c,
\* what the record of fold s in mods1 holds for c
SameFold(mods1, mods2, s) ==
    /\ mods2[s] # None
    /\ Get(mods2[s]).split_id = s
    /\ Len(Get(mods2[s]).validation) = 2 /\ Len(Get(mods2[s]).test) = 2
    /\ \A c \in Folds \ {s} :
        LET v1 == ForSplit(Get(mods1[s]).validation, c)
            v2 == ForSplit(Get(mods2[s]).validation, c)
            t1 == ForSplit(Get(mods1[s]).test, c)
            t2 == ForSplit(Get(mods2[s]).test, c)
        IN /\ \E j \in 1 .. 2 : Get(mods2[s]).validation[j].split_id = c
           /\ \E j \in 1 .. 2 : Get(mods2[s]).test[j].split_id = c
           /\ v2.threshold = v1.threshold
           /\ v2.prec_req = v1.prec_req
           /\ v2.precision_recall_curve = v1.precision_recall_curve
           /\ v2.area_under_the_prc = v1.area_under_the_prc
           /\ v2.validation_pred = v1.validation_pred
           /\ t2.prediction = t1.prediction

\* C11: a model loaded from the file a model was saved to has, for every
\* trained fold s and both complementary folds c, the threshold, required
\* precision, precision/recall curve, AUC, validation predictions and test
\* predictions of the saved model under the same (s, c); a fold that was not
\* trained is not trained after loading.
C11_RoundTrip ==
    [][(Saved /\ op' = "from_hdf" /\ exc' = "None") =>
            \A s \in Folds :
                /\ models[s] = None => models'[s] = None
                /\ Complete(s) => SameFold(models, models', s)]_vars

\* a model loaded with a fold that was never trained and a trained fold
\* whose two validation thresholds differ
C11_Witness ==
    /\ op = "from_hdf"
    /\ exc = "None"
    /\ Saved
    /\ \E s \in Folds : models[s] = None
    /\ \E s \in Folds :
        /\ Complete(s)
        /\ Get(models[s]).validation[1].threshold # Get(models[s]).validation[2].threshold

\* ------------------------------------------------------- claims on the cache
\* C12: fit_split(s) without refit on a trained fold s returns without an
\* exception and leaves self.models and the synthetic set as they are,
\* whatever the classifier class handed to it; the partition is not written
\* by fit_split at all.
C12_CachedFitSplit ==
    \A s \in Folds, cls \in Classifiers(Len(lcs)) :
        Complete(s) =>
            LET r == FitSplitOp([X |-> X, models |-> models], s, FALSE, cls, PrecOne,
                                lcs, half_width, splits)
            IN r.exc = "None" /\ r.models = models /\ r.X = X

\* fit_split has returned with a trained fold next to a fold that a failed
\* training left and a fold never trained
C12_Witness ==
    /\ op = "fit_split"
    /\ exc = "None"
    /\ \E s \in Folds : Complete(s)
    /\ \E s \in Folds : models[s] # None /\ ~Complete(s)
    /\ \E s \in Folds : models[s] = None

\* --------------------------------------------------- claims on the test sets
\* the rows of the prediction pred for sample k of section j
RowsFor(pred, j, k) ==
    {x \in 1 .. Len(pred) : pred[x].sect_id = j /\ pred[x].time = LcTime(At(lcs, j), k)}

\* the sample indices of section j that have a full window around them
ValidIndices(j) == half_width .. LcLen(At(lcs, j)) - half_width - 1

\* C13: the test result of a trained fold s for a complementary fold c has
\* exactly one row for every sample k of every section j of c with
\* half_width <= k < len(j) - half_width, tagged with j and time[k], and no
\* other row; the flux window of the row is [k - half_width, k + half_width]
\* and lies inside the section.
C13_TestPredictions ==
    \A s \in Folds : Complete(s) =>
        \A c \in Folds \ {s} :
            LET pred == ForSplit(Get(models[s]).test, c).prediction
            IN /\ \A j \in splits[c] : \A k \in ValidIndices(j) :
                    Cardinality(RowsFor(pred, j, k)) = 1
               /\ \A x \in 1 .. Len(pred) :
                    /\ pred[x].sect_id \in splits[c]
                    /\ \E k \in ValidIndices(pred[x].sect_id) :
                        x \in RowsFor(pred, pred[x].sect_id, k)
               /\ \A j \in splits[c] :
                    LET t == UnwrapLc(At(lcs, j), half_width)
                    IN \A i \in 1 .. Len(t) :
                        \E k \in ValidIndices(j) :
                            /\ t[i].time = LcTime(At(lcs, j), k)
                            /\ t[i].lo = k - half_width /\ t[i].hi = k + half_width
                            /\ 0 <= t[i].lo /\ t[i].hi <= LcLen(At(lcs, j)) - 1

\* a trained fold with a test set of two sections, one of them with several
\* samples scored
C13_Witness ==
    /\ op = "fit_split"
    /\ \E s \in Folds : Complete(s) /\
        \E c \in Folds \ {s} :
            /\ Cardinality(splits[c]) = 2
            /\ \E j \in splits[c] : Cardinality(ValidIndices(j)) > 1
            /\ Len(ForSplit(Get(models[s]).test, c).prediction) > 2

\* ------------------------------------------------- claims on the while loop
\* C14: for any window W >= 0 a pass of the de-duplication loop marks at
\* least the candidate it selects as resolved, so that the loop ends after
\* at most as many passes as there are candidates: after any number of
\* passes every candidate a pass has selected is resolved.
C14_SelectedResolved ==
    \A x \in 1 .. Len(final) : final[x] => ~m[x]

\* ------------------------------------------------- claims on the empty split
\* C15: of a quarter with more than 3 sections every split receives at
\* least one section, whatever the shuffle and the footprints.
C15_EveryFoldGetsASection ==
    op = "__init__" =>
        \A q \in 0 .. MaxQuarter : QuarterSize(q) > 3 =>
            \A j \in Folds : \E k \in splits[j] : At(lcs, k).quarter = q
====
